---- MODULE Spec2Model ----
(***************************************************************************)
(* Ground-truth bounding boxes for pedestrians (make_bb.py).               *)
(*                                                                         *)
(* The run is the script's main block: a loop over the files of the        *)
(* recording directory; for every usable frame the actors of the log are   *)
(* turned into Walker objects (projection to a 2D rectangle), sorted by    *)
(* planar distance and scanned nearest-first against the semantic raster   *)
(* through a per-frame instance buffer; accepted rectangles are drawn and, *)
(* with --save, written to gt.txt.                                         *)
(*                                                                         *)
(* The matrix arithmetic of get_bounding_box (lines 84-88) is not          *)
(* re-computed: a log line carries the 8 projected corners that line 88    *)
(* produces for it, bb[i] = <<u, v, depth>>.  u and v are pixel            *)
(* coordinates in units of 1/Scale pixel, so that the float tests          *)
(* bb[i,0] >= 0 and the truncation int(bb[i,0]) are distinct operations;   *)
(* depth is in whole world units and is never 0 (no division by zero).     *)
(***************************************************************************)
EXTENDS Integers, Sequences, FiniteSets, TLC

VARIABLES args, file_list, fi, pc, frame, gt, saved, src,
          semantic, h, w, walkers, instance, wi, y, cnt, total, shown, dumped

\* cleansing.py: start is args.start, jpgs the numbers of the images in the
\* gt directory, pos the frame index cnt, org the number of the image on
\* display, new_gt_txt the file new_gt.txt, epc the place in the program,
\* key the last key read and nkeys the number of keys read
VARIABLES start, jpgs, new_gt, cache_new_gt, pos, org, idx, finish, new_gt_txt,
          epc, key, nkeys

\* the variables of make_bb.py other than gt.txt
mvars == <<args, file_list, fi, pc, frame, saved, src,
           semantic, h, w, walkers, instance, wi, y, cnt, total, shown, dumped>>

\* the variables of cleansing.py
evars == <<start, jpgs, new_gt, cache_new_gt, pos, org, idx, finish, new_gt_txt,
           epc, key, nkeys>>

vars == <<mvars, gt, evars>>

(***************************************************************************)
(* Bounds of the model                                                     *)
(***************************************************************************)
Scale == 2
ImgW == 22
ImgH == 38
MaxWalkers == 2
MaxFrames == 2
MaxLines == 3
MaxKeys == 5

(***************************************************************************)
(* Program constants                                                       *)
(***************************************************************************)
MinWidth == 17
MinHeight == 35
MaxDepth == 60
Sentinel == 100000
Unassigned == -1
PEDESTRIAN == <<60, 20, 220>>
ROAD == <<128, 64, 128>>
SIGN == <<0, 220, 220>>
None == <<>>

(***************************************************************************)
(* Walker: projection of the 8 corners to a rectangle                      *)
(***************************************************************************)
\* python int() of a float: truncation toward zero
int(q) == IF q >= 0 THEN q \div Scale ELSE -((-q) \div Scale)

\* the depth test rejecting a box with a corner behind the camera or a
\* corner too far away
get_bounding_box_either(bb) ==
    IF ~(\A i \in 1..8 : bb[i][3] > 0) \/ ~(\A i \in 1..8 : bb[i][3] < MaxDepth)
    THEN None
    ELSE bb

\* line 90: the depth test on the projected corners
get_bounding_box(bb) ==
    IF ~(\A i \in 1..8 : bb[i][3] > 0) /\ ~(\A i \in 1..8 : bb[i][3] < MaxDepth)
    THEN None
    ELSE bb

\* the sign test made after the truncation
KeepCornerTruncated(c) == int(c[1]) >= 0 /\ int(c[2]) >= 0

\* line 100: the corners that pass the sign test, truncated to integers
KeepCorner(c) == c[1] >= 0 /\ c[2] >= 0

RECURSIVE points(_, _)
points(bb, i) ==
    IF i > 8 THEN <<>>
    ELSE (IF KeepCorner(bb[i]) THEN << <<int(bb[i][1]), int(bb[i][2])>> >> ELSE <<>>)
         \o points(bb, i + 1)

\* lines 104-115: running minimum and maximum over the points
RECURSIVE MinMax(_, _, _)
MinMax(pts, k, m) ==
    IF k > Len(pts) THEN m
    ELSE LET point == pts[k]
             min_x == IF point[1] < m.min_x THEN point[1] ELSE m.min_x
             max_x == IF point[1] > m.max_x THEN point[1] ELSE m.max_x
             min_y == IF point[2] < m.min_y THEN point[2] ELSE m.min_y
             max_y == IF point[2] > m.max_y THEN point[2] ELSE m.max_y
         IN  MinMax(pts, k + 1,
                    [min_x |-> min_x, min_y |-> min_y, max_x |-> max_x, max_y |-> max_y])

\* the size filter rejecting only what is too narrow and too low
TooSmallBoth(m) == (m.max_x - m.min_x) < MinWidth /\ (m.max_y - m.min_y) < MinHeight

\* line 117: the size filter
TooSmall(m) == (m.max_x - m.min_x) < MinWidth \/ (m.max_y - m.min_y) < MinHeight

get_2d_bounding_box(corners) ==
    LET bb == get_bounding_box(corners)
    IN  IF bb = None THEN None
        ELSE LET pts == points(bb, 1)
             IN  IF Len(pts) # 8 THEN None
                 ELSE LET m == MinMax(pts, 1, [min_x |-> Sentinel, min_y |-> Sentinel,
                                               max_x |-> 0, max_y |-> 0])
                      IN  IF TooSmall(m) THEN None
                          ELSE << <<m.min_x, m.min_y>>, <<m.max_x, m.max_y>> >>

\* the squared distance with the height counted
get_distance_3d(cam_loc, obj_loc) ==
    (cam_loc.x - obj_loc.x) * (cam_loc.x - obj_loc.x)
      + (cam_loc.y - obj_loc.y) * (cam_loc.y - obj_loc.y)
      + (cam_loc.z - obj_loc.z) * (cam_loc.z - obj_loc.z)

\* lines 74-81: squared planar distance, z not considered
get_distance(cam_loc, obj_loc) ==
    (cam_loc.x - obj_loc.x) * (cam_loc.x - obj_loc.x)
      + (cam_loc.y - obj_loc.y) * (cam_loc.y - obj_loc.y)

\* a projection that remembers having been called: only the first actor of a
\* log gets its rectangle
WalkerFirstOnly(line, cam) ==
    [id       |-> line.id,
     location |-> line.location,
     corners  |-> line.corners,
     cam      |-> cam,
     bb2d     |-> IF line.id > 1 THEN None ELSE get_2d_bounding_box(line.corners),
     dist     |-> get_distance(cam.location, line.location)]

\* lines 63-72: the Walker object built from one actor line
Walker(line, cam) ==
    [id       |-> line.id,
     location |-> line.location,
     corners  |-> line.corners,
     cam      |-> cam,
     bb2d     |-> get_2d_bounding_box(line.corners),
     dist     |-> get_distance(cam.location, line.location)]

(***************************************************************************)
(* Frame set-up: parsing, sorting, buffers                                 *)
(***************************************************************************)
\* a parser that passes over a short line and goes on with the next one
RECURSIVE ParseActorsSkipping(_, _, _)
ParseActorsSkipping(log, k, cam) ==
    IF k > Len(log) THEN <<>>
    ELSE IF log[k].ntok < 10 THEN ParseActorsSkipping(log, k + 1, cam)
    ELSE <<Walker(log[k], cam)>> \o ParseActorsSkipping(log, k + 1, cam)

\* lines 222-230: actor lines until a line with fewer than 10 tokens
RECURSIVE ParseActors(_, _, _)
ParseActors(log, k, cam) ==
    IF k > Len(log) THEN <<>>
    ELSE IF log[k].ntok < 10 THEN <<>>
    ELSE <<Walker(log[k], cam)>> \o ParseActors(log, k + 1, cam)

\* lines 229, 66-69: Walker.__init__ indexes info[0..11], so the first line
\* that passes the test of line 227 with fewer than 14 tokens raises IndexError
RECURSIVE ParseRaises(_, _)
ParseRaises(log, k) ==
    IF k > Len(log) THEN FALSE
    ELSE IF log[k].ntok < 10 THEN FALSE
    ELSE IF log[k].ntok < 14 THEN TRUE
    ELSE ParseRaises(log, k + 1)

\* line 232: list.sort(key=dist), a stable sort
RECURSIVE Insert(_, _)
Insert(sorted, x) ==
    IF sorted = <<>> THEN <<x>>
    ELSE IF x.dist < sorted[Len(sorted)].dist
         THEN Insert(SubSeq(sorted, 1, Len(sorted) - 1), x) \o <<sorted[Len(sorted)]>>
         ELSE sorted \o <<x>>

RECURSIVE SortByDist(_, _)
SortByDist(ws, k) ==
    IF k = 0 THEN <<>> ELSE Insert(SortByDist(ws, k - 1), ws[k])

\* cv2.imread of the semantic raster: background colour with one rectangle
\* of pedestrian pixels
Raster(mask) ==
    [yy \in 0..(ImgH - 1) |->
        [xx \in 0..(ImgW - 1) |->
            IF mask.x0 <= xx /\ xx <= mask.x1 /\ mask.y0 <= yy /\ yy <= mask.y1
            THEN PEDESTRIAN ELSE mask.bg]]

\* line 235
FreshInstance(hh, ww) == [yy \in 0..(hh - 1) |-> [xx \in 0..(ww - 1) |-> Unassigned]]

\* a buffer allocated for the first frame only and used again afterwards
ReusedInstance(hh, ww) == IF instance = <<>> THEN FreshInstance(hh, ww) ELSE instance

\* line 235
EmptyInstance(hh, ww) == FreshInstance(hh, ww)

\* the order of file names: NNN.png before NNN.txt before the names of the
\* next number; a name without extension (the directory "semantic") is last
NameLess(a, b) ==
    IF a.ext = "" THEN FALSE
    ELSE IF b.ext = "" THEN TRUE
    ELSE a.num < b.num \/ (a.num = b.num /\ a.ext = "png" /\ b.ext = "txt")

\* line 183: file_list.sort()
RECURSIVE InsertFile(_, _)
InsertFile(sorted, x) ==
    IF sorted = <<>> THEN <<x>>
    ELSE IF NameLess(x, sorted[Len(sorted)])
         THEN InsertFile(SubSeq(sorted, 1, Len(sorted) - 1), x) \o <<sorted[Len(sorted)]>>
         ELSE sorted \o <<x>>

\* the listing as os.listdir returned it
ListedOrder(fl, k) == SubSeq(fl, 1, k)

RECURSIVE SortFiles(_, _)
SortFiles(fl, k) ==
    IF k = 0 THEN <<>> ELSE InsertFile(SortFiles(fl, k - 1), fl[k])

\* an entry is skipped only for a missing log or an unreadable image
UnusableUnlessSemantic(f) ==
    \/ f.ext = "" \/ f.ext = "txt"
    \/ ~f.has_log
    \/ ~f.readable

\* lines 198-205: entries of the directory that are not processed
Unusable(f) ==
    \/ f.ext = "" \/ f.ext = "txt"
    \/ ~f.has_log
    \/ ~f.has_semantic
    \/ ~f.readable

(***************************************************************************)
(* Occlusion scan                                                          *)
(***************************************************************************)
\* line 249: all(semantic[y][x] == (60,20,220))
IsPedestrian(px) == \A k \in 1..3 : px[k] = PEDESTRIAN[k]

\* the test without the ownership check
ClaimableAnyOwner(inst, sem, yy, xx) == IsPedestrian(sem[yy][xx])

Claimable(inst, sem, yy, xx) == inst[yy][xx] = Unassigned /\ IsPedestrian(sem[yy][xx])

\* a scan that is not clamped
NeverPast(c, size) == FALSE

\* lines 246, 248: if y >= h: break, if x >= w: break
PastEdge(c, size) == c >= size

\* lines 247-251: the inner loop over one row; st = [instance, cnt]
RECURSIVE ScanCols(_, _, _, _, _)
ScanCols(st, yy, xx, maxx, id) ==
    IF xx > maxx THEN st
    ELSE IF PastEdge(xx, w) THEN st
    ELSE IF Claimable(st.instance, semantic, yy, xx)
         THEN ScanCols([instance |-> [st.instance EXCEPT ![yy][xx] = id],
                        cnt |-> st.cnt + 1], yy, xx + 1, maxx, id)
         ELSE ScanCols(st, yy, xx + 1, maxx, id)

\* the visibility test with the boundary on the rejecting side
RejectedAtBoundary(c, t) == t > 0 /\ 10 * c <= 2 * t

\* the visibility test guarded by the count instead of the area
RejectedIfClaimed(c, t) == c > 0 /\ 10 * c < 2 * t

\* line 253: the visibility test
Rejected(c, t) == t > 0 /\ 10 * c < 2 * t

\* a line with max - min as width and height
GtLineExtent(fr, id, minx, miny, maxx, maxy) ==
    <<fr, id, minx, miny, maxx - minx, maxy - miny, 1, 1, 1>>

\* line 257: the fields of one ground-truth line
GtLine(fr, id, minx, miny, maxx, maxy) ==
    <<fr, id, minx, miny, maxx - minx + 1, maxy - miny + 1, 1, 1, 1>>

(***************************************************************************)
(* Actions of the main block                                               *)
(***************************************************************************)
\* open(path, 'a') keeps the content of the file
OpenForAppending(content) == content

\* line 192: open(path, 'w') empties the file
OpenForWriting(content) == <<>>

\* lines 177-192
Start ==
    /\ pc = "start"
    /\ frame' = 0
    /\ gt' = IF args.save THEN OpenForWriting(gt) ELSE gt
    /\ fi' = 1
    /\ pc' = "files"
    /\ file_list' = SortFiles(file_list, Len(file_list))
    /\ UNCHANGED <<evars, args, shown, dumped, saved, src, semantic, h, w, walkers,
                   instance, wi, y, cnt, total>>

\* lines 196-205: continue
SkipFile ==
    /\ pc = "files"
    /\ fi <= Len(file_list)
    /\ Unusable(file_list[fi])
    /\ fi' = fi + 1
    /\ UNCHANGED <<evars, args, shown, dumped, file_list, pc, frame, gt, saved, src, semantic, h, w,
                   walkers, instance, wi, y, cnt, total>>

\* lines 204-235; an IndexError raised by Walker() at line 229 ends the run
OpenFrame ==
    /\ pc = "files"
    /\ fi <= Len(file_list)
    /\ ~Unusable(file_list[fi])
    /\ LET f == file_list[fi]
           sem == Raster(f.mask)
       IN  /\ saved' = IF args.save THEN Append(saved, frame) ELSE saved
           /\ frame' = frame + 1
           /\ src' = <<>>
           /\ semantic' = sem
           /\ IF ParseRaises(f.log, 1)
              THEN /\ pc' = "error"
                   /\ UNCHANGED <<walkers, h, w, instance, wi>>
              ELSE /\ walkers' = LET ws == ParseActors(f.log, 1, f.cam)
                                 IN  SortByDist(ws, Len(ws))
                   /\ h' = Cardinality(DOMAIN sem)
                   /\ w' = Cardinality(DOMAIN sem[0])
                   /\ instance' = EmptyInstance(Cardinality(DOMAIN sem),
                                                Cardinality(DOMAIN sem[0]))
                   /\ wi' = 1
                   /\ pc' = "walkers"
    /\ UNCHANGED <<evars, args, shown, dumped, file_list, fi, gt, y, cnt, total>>

\* a walker without rectangle ends the loop over the walkers
SkipRemainingWalkers ==
    /\ pc = "walkers"
    /\ wi <= Len(walkers)
    /\ walkers[wi].bb2d = None
    /\ wi' = Len(walkers) + 1
    /\ UNCHANGED <<evars, args, shown, dumped, file_list, fi, pc, frame, gt, saved, src, semantic, h, w,
                   walkers, instance, y, cnt, total>>

\* lines 237-239: a walker without rectangle
SkipWalker ==
    /\ pc = "walkers"
    /\ wi <= Len(walkers)
    /\ walkers[wi].bb2d = None
    /\ wi' = wi + 1
    /\ UNCHANGED <<evars, args, shown, dumped, file_list, fi, pc, frame, gt, saved, src, semantic, h, w,
                   walkers, instance, y, cnt, total>>

\* lines 237-245
BeginScan ==
    /\ pc = "walkers"
    /\ wi <= Len(walkers)
    /\ walkers[wi].bb2d # None
    /\ LET bb == walkers[wi].bb2d
       IN  /\ total' = (bb[2][1] - bb[1][1] + 1) * (bb[2][2] - bb[1][2] + 1)
           /\ y' = bb[1][2]
    /\ cnt' = 0
    /\ pc' = "scan"
    /\ UNCHANGED <<evars, args, shown, dumped, file_list, fi, frame, gt, saved, src, semantic, h, w,
                   walkers, instance, wi>>

\* lines 245-251: one row of the rectangle
ScanRow ==
    /\ pc = "scan"
    /\ LET bb == walkers[wi].bb2d
       IN  /\ y <= bb[2][2]
           /\ ~PastEdge(y, h)
           /\ LET st == ScanCols([instance |-> instance, cnt |-> cnt], y,
                                 bb[1][1], bb[2][1], walkers[wi].id)
              IN  /\ instance' = st.instance
                  /\ cnt' = st.cnt
    /\ y' = y + 1
    /\ UNCHANGED <<evars, args, shown, dumped, file_list, fi, pc, frame, gt, saved, src, semantic, h, w,
                   walkers, wi, total>>

\* the visibility test with the pixels of a rejected walker released
JudgeReleasing ==
    /\ pc = "scan"
    /\ LET bb == walkers[wi].bb2d
       IN  /\ (y > bb[2][2] \/ PastEdge(y, h))
           /\ IF Rejected(cnt, total)
              THEN /\ UNCHANGED <<src, gt>>
                   /\ instance' = [yy \in DOMAIN instance |->
                                     [xx \in DOMAIN instance[yy] |->
                                        IF instance[yy][xx] = walkers[wi].id
                                        THEN Unassigned ELSE instance[yy][xx]]]
              ELSE /\ src' = Append(src, <<walkers[wi].id, bb>>)
                   /\ gt' = IF args.save
                            THEN Append(gt, GtLine(frame, walkers[wi].id,
                                                   bb[1][1], bb[1][2], bb[2][1], bb[2][2]))
                            ELSE gt
                   /\ UNCHANGED instance
    /\ wi' = wi + 1
    /\ pc' = "walkers"
    /\ UNCHANGED <<evars, args, shown, dumped, file_list, fi, frame, saved, semantic, h, w, walkers,
                   y, cnt, total>>

\* a walker that passes the visibility test is drawn only when saving
JudgeWhenSaving ==
    /\ pc = "scan"
    /\ LET bb == walkers[wi].bb2d
       IN  /\ (y > bb[2][2] \/ PastEdge(y, h))
           /\ IF Rejected(cnt, total) \/ ~args.save
              THEN UNCHANGED <<src, gt>>
              ELSE /\ src' = Append(src, <<walkers[wi].id, bb>>)
                   /\ gt' = Append(gt, GtLine(frame, walkers[wi].id,
                                              bb[1][1], bb[1][2], bb[2][1], bb[2][2]))
    /\ wi' = wi + 1
    /\ pc' = "walkers"
    /\ UNCHANGED <<evars, args, shown, dumped, file_list, fi, frame, saved, semantic, h, w, walkers,
                   instance, y, cnt, total>>

\* lines 253-257: visibility test, drawing and writing
Judge ==
    /\ pc = "scan"
    /\ LET bb == walkers[wi].bb2d
       IN  /\ (y > bb[2][2] \/ PastEdge(y, h))
           /\ IF Rejected(cnt, total)
              THEN UNCHANGED <<src, gt>>
              ELSE /\ src' = Append(src, <<walkers[wi].id, bb>>)
                   /\ gt' = IF args.save
                            THEN Append(gt, GtLine(frame, walkers[wi].id,
                                                   bb[1][1], bb[1][2], bb[2][1], bb[2][2]))
                            ELSE gt
    /\ wi' = wi + 1
    /\ pc' = "walkers"
    /\ UNCHANGED <<evars, args, shown, dumped, file_list, fi, frame, saved, semantic, h, w, walkers,
                   instance, y, cnt, total>>

\* lines 259-264
EndFrame ==
    /\ pc = "walkers"
    /\ wi > Len(walkers)
    /\ shown' = IF args.show THEN Append(shown, src) ELSE shown
    /\ dumped' = IF args.debug THEN Append(dumped, <<frame, src>>) ELSE dumped
    /\ fi' = fi + 1
    /\ pc' = "files"
    /\ UNCHANGED <<evars, args, file_list, frame, gt, saved, src, semantic, h, w, walkers,
                   instance, wi, y, cnt, total>>

\* lines 265-268
Finish ==
    /\ pc = "files"
    /\ fi > Len(file_list)
    /\ pc' = "done"
    /\ UNCHANGED <<evars, args, shown, dumped, file_list, fi, frame, gt, saved, src, semantic, h, w,
                   walkers, instance, wi, y, cnt, total>>

Next ==
    \/ Start
    \/ SkipFile
    \/ OpenFrame
    \/ SkipWalker
    \/ BeginScan
    \/ ScanRow
    \/ Judge
    \/ EndFrame
    \/ Finish

(***************************************************************************)
(* Inputs: the recording directory                                         *)
(***************************************************************************)
\* the corner order of create_bb_points (lines 126-133): the signs of the
\* half-extents along x (depth), y (image u) and z (image -v)
SignX == <<1, -1, -1, 1, 1, -1, -1, 1>>
SignY == <<1, 1, -1, -1, 1, 1, -1, -1>>
SignZ == <<-1, -1, -1, -1, 1, 1, 1, 1>>

\* The projected corners of a box whose near face spans [u0, u0+du] x [v0, v0+dv]
\* (in 1/Scale pixel) at depth dn and whose far face, at depth df, is one
\* pixel smaller on every side.
Corners(u0, du, v0, dv, dn, df) ==
    [i \in 1..8 |->
        LET far == SignX[i] > 0
            inset == IF far THEN Scale ELSE 0
        IN  << IF SignY[i] > 0 THEN u0 + du - inset ELSE u0 + inset,
               IF SignZ[i] < 0 THEN v0 + dv - inset ELSE v0 + inset,
               IF far THEN df ELSE dn >>]

Origin == [x |-> 0, y |-> 0, z |-> 0]
CamSet == {[location |-> Origin]}

\* actor positions: planar distances 1 (though 5 above the camera) and 4
Near == [x |-> 1, y |-> 0, z |-> 5]
Far == [x |-> 2, y |-> 0, z |-> 0]
Locations == {Near, Far}

\* boxes of a scene: one inside the image, one narrower and lower, and one
\* half a pixel past the left edge
SceneBoxes ==
    { Corners(0, 19 * Scale + 1, 0, 35 * Scale, 5, 6),
      Corners(2 * Scale, 17 * Scale, Scale, 35 * Scale + 1, 20, 21),
      Corners(-1, 19 * Scale, 0, 35 * Scale, 5, 6) }

\* single boxes: every combination of left edge, width, top edge, height and
\* depths of the near and far face
BoxU0 == {-1, 0, 3 * Scale + 1, (Sentinel + 1) * Scale}
BoxDu == {10 * Scale, 16 * Scale, 17 * Scale, 19 * Scale + 1}
BoxV0 == {-Scale, 0, 2 * Scale + 1, (ImgH + 2) * Scale}
BoxDv == {34 * Scale, 35 * Scale}
BoxDepths == {<<5, 6>>, <<-6, -5>>, <<-1, 5>>, <<-1, 60>>, <<59, 60>>, <<60, 61>>}

SingleBoxes ==
    { Corners(u0, du, v0, dv, d[1], d[2]) :
        u0 \in BoxU0, du \in BoxDu, v0 \in BoxV0, dv \in BoxDv, d \in BoxDepths }

ActorLine(id, corners, location) ==
    [ntok |-> 14, id |-> id, corners |-> corners, location |-> location]

\* logs of at most n actor lines; the actor of line k has id k
RECURSIVE Logs(_, _)
Logs(n, boxes) ==
    IF n = 0 THEN {<<>>}
    ELSE LET shorter == Logs(n - 1, boxes)
         IN  shorter \cup
             { Append(l, ActorLine(n, c, p)) :
                 l \in {s \in shorter : Len(s) = n - 1}, c \in boxes, p \in Locations }

\* semantic rasters: everything pedestrian; a 12x12 and an 11x13 block of
\* pedestrian pixels (144 and 143 pixels) on road or traffic-sign background
Masks ==
    { [bg |-> ROAD, x0 |-> 0, y0 |-> 0, x1 |-> ImgW - 1, y1 |-> ImgH - 1],
      [bg |-> ROAD, x0 |-> 0, y0 |-> 0, x1 |-> 11, y1 |-> 11],
      [bg |-> SIGN, x0 |-> 2, y0 |-> 1, x1 |-> 12, y1 |-> 13] }

AllPedestrian == [bg |-> ROAD, x0 |-> 0, y0 |-> 0, x1 |-> ImgW - 1, y1 |-> ImgH - 1]

File(ext, has_log, has_semantic, readable, log, mask, cam) ==
    [num |-> 1, ext |-> ext, has_log |-> has_log, has_semantic |-> has_semantic,
     readable |-> readable, log |-> log, mask |-> mask, cam |-> cam]

\* the image NNN.png of a frame, with its log and semantic raster present
Png(log, mask, cam) == File("png", TRUE, TRUE, TRUE, log, mask, cam)

\* the directory entry of the log itself, NNN.txt, listed after NNN.png
Txt == File("txt", TRUE, TRUE, TRUE, <<>>, AllPedestrian, [location |-> Origin])

SceneFrames ==
    { Png(l, m, c) : l \in Logs(MaxWalkers, SceneBoxes), m \in Masks, c \in CamSet }

BoxFrames ==
    { Png(<<ActorLine(1, b, Far)>>, AllPedestrian, c) : b \in SingleBoxes, c \in CamSet }

\* new_gt.txt does not exist
Absent == << <<"absent", 0>> >>

\* the editor has not been started
EditorOff ==
    /\ start = 0
    /\ jpgs = {}
    /\ new_gt = <<>>
    /\ cache_new_gt = <<>>
    /\ pos = 0
    /\ org = 0
    /\ idx = -1
    /\ finish = 0
    /\ new_gt_txt = Absent
    /\ epc = "off"
    /\ key = "none"
    /\ nkeys = 0

\* make_bb.py before the run
MainAtStart ==
    /\ pc = "start"
    /\ fi = 0
    /\ frame = 0
    /\ saved = <<>>
    /\ src = <<>>
    /\ semantic = <<>>
    /\ h = 0
    /\ w = 0
    /\ walkers = <<>>
    /\ instance = <<>>
    /\ wi = 0
    /\ y = 0
    /\ cnt = 0
    /\ total = 0
    /\ shown = <<>>
    /\ dumped = <<>>

\* before the run; gt.txt is variable gt
RestInit == MainAtStart /\ EditorOff

\* no gt.txt yet
TypeInit ==
    /\ gt = <<>>
    /\ RestInit

\* runs over the recording of one scene
Init ==
    /\ args \in {[save |-> b, show |-> FALSE, debug |-> FALSE] : b \in BOOLEAN}
    /\ file_list \in {<<f, Txt>> : f \in SceneFrames}
    /\ TypeInit

Spec == Init /\ [][Next]_vars

\* runs over the recording of one frame with a single actor
InitBox ==
    /\ args \in {[save |-> b, show |-> FALSE, debug |-> FALSE] : b \in BOOLEAN}
    /\ file_list \in {<<f, Txt>> : f \in BoxFrames}
    /\ TypeInit

SpecBox == InitBox /\ [][Next]_vars

(***************************************************************************)
(* Inputs: recordings of several frames, logs with short lines             *)
(***************************************************************************)
BoxA == Corners(0, 19 * Scale + 1, 0, 35 * Scale, 5, 6)

BoxD == Corners(2 * Scale, 17 * Scale, Scale, 35 * Scale + 1, 20, 21)

\* a box with one corner left of the image: no rectangle
BoxOut == Corners(-1, 19 * Scale, 0, 35 * Scale, 5, 6)

Block143 == [bg |-> SIGN, x0 |-> 2, y0 |-> 1, x1 |-> 12, y1 |-> 13]

Cam0 == [location |-> Origin]

\* what the recording holds for one frame number: a frame whose walker is
\* accepted (after an actor without rectangle), one whose walker is rejected,
\* and frames with the log, the semantic raster or a readable image missing
RunFrames ==
    { Png(<<ActorLine(2, BoxOut, Near), ActorLine(1, BoxA, Near)>>, AllPedestrian, Cam0),
      Png(<<ActorLine(1, BoxA, Near)>>, Block143, Cam0),
      File("png", FALSE, TRUE, TRUE, <<>>, AllPedestrian, Cam0),
      File("png", TRUE, FALSE, TRUE, <<>>, AllPedestrian, Cam0),
      File("png", TRUE, TRUE, FALSE, <<>>, AllPedestrian, Cam0) }

Numbered(f, n) == [f EXCEPT !.num = n]

\* the sub-directory "semantic" of the recording directory
SemanticDir == Numbered(File("", TRUE, TRUE, TRUE, <<>>, AllPedestrian, Cam0), 0)

\* the entries of frame n: NNN.png, and NNN.txt when the log exists
Entries(f, n) ==
    <<Numbered(f, n)>> \o (IF f.has_log THEN <<Numbered(Txt, n)>> ELSE <<>>)

\* the sorted listings of recordings of n frames
RECURSIVE Recordings(_)
Recordings(n) ==
    IF n = 0 THEN {<<>>}
    ELSE {r \o Entries(f, n) : r \in Recordings(n - 1), f \in RunFrames}

Reverse(q) == [i \in 1..Len(q) |-> q[Len(q) + 1 - i]]

\* os.listdir returns the entries in arbitrary order: here sorted or reversed
Listings ==
    LET sorted == {r \o <<SemanticDir>> : r \in Recordings(MaxFrames)}
    IN  sorted \cup {Reverse(l) : l \in sorted}

\* the gt.txt an earlier run left behind
OldGt == << <<MaxFrames + 5, 7, 0, 0, 18, 36, 1, 1, 1>> >>

Toggles == {[save |-> a, show |-> b, debug |-> c] : a \in BOOLEAN, b \in BOOLEAN, c \in BOOLEAN}

\* runs over a recording of several frames, with an earlier gt.txt present
InitRun ==
    /\ args \in Toggles
    /\ file_list \in Listings
    /\ gt = OldGt
    /\ RestInit

SpecRun == InitRun /\ [][Next]_vars

\* the lines a log can hold at position n: three complete actor lines, a
\* blank line, an actor line cut after 9 tokens and one cut after 10 tokens
LinesAt(n) ==
    { ActorLine(n, BoxA, Near),
      ActorLine(n, BoxD, Far),
      ActorLine(n, BoxOut, Near),
      [ActorLine(n, BoxA, Near) EXCEPT !.ntok = 0],
      [ActorLine(n, BoxA, Near) EXCEPT !.ntok = 9],
      [ActorLine(n, BoxA, Near) EXCEPT !.ntok = 10] }

RECURSIVE ParseLogs(_)
ParseLogs(n) ==
    IF n = 0 THEN {<<>>}
    ELSE LET shorter == ParseLogs(n - 1)
         IN  shorter \cup
             {Append(l, x) : l \in {s \in shorter : Len(s) = n - 1}, x \in LinesAt(n)}

\* runs over the recording of one frame whose log may hold short lines
InitParse ==
    /\ args \in {[save |-> b, show |-> FALSE, debug |-> FALSE] : b \in BOOLEAN}
    /\ file_list \in {<<Png(l, AllPedestrian, Cam0), Txt>> : l \in ParseLogs(MaxLines)}
    /\ TypeInit

SpecParse == InitParse /\ [][Next]_vars

(***************************************************************************)
(* Vocabulary of the properties                                            *)
(***************************************************************************)
Pixels == (0..(h - 1)) \X (0..(w - 1))

Owner(p) == instance[p[1]][p[2]]

PedestrianAt(p) == semantic[p[1]][p[2]] = PEDESTRIAN

HasRect(k) == walkers[k].bb2d # None

\* pixel p lies inside the rectangle of walker k
Covers(k, p) ==
    /\ HasRect(k)
    /\ walkers[k].bb2d[1][1] <= p[2] /\ p[2] <= walkers[k].bb2d[2][1]
    /\ walkers[k].bb2d[1][2] <= p[1] /\ p[1] <= walkers[k].bb2d[2][2]

Area(k) ==
    (walkers[k].bb2d[2][1] - walkers[k].bb2d[1][1] + 1)
      * (walkers[k].bb2d[2][2] - walkers[k].bb2d[1][2] + 1)

OwnedBy(k) == {p \in Pixels : Owner(p) = walkers[k].id}

\* the walkers whose iteration of the loop of line 237 is over
Done(k) == pc \in {"walkers", "scan"} /\ k \in 1..(wi - 1)

Drawn(k) == \E j \in 1..Len(src) : src[j][1] = walkers[k].id

HasLine(k) == \E j \in 1..Len(gt) : gt[j][1] = frame /\ gt[j][2] = walkers[k].id

PlanarDist2(k) ==
    LET dx == walkers[k].cam.location.x - walkers[k].location.x
        dy == walkers[k].cam.location.y - walkers[k].location.y
    IN  dx * dx + dy * dy

(***************************************************************************)
(* Occlusion: C1 - C4                                                      *)
(***************************************************************************)
\* C1: during the scan a pixel of the instance buffer changes only from
\* unassigned to the id of the walker being scanned, and only where the
\* semantic raster has the pedestrian colour; so an assigned pixel is never
\* reassigned and every assigned pixel is a pedestrian pixel.
C1_ClaimOnlyUnassignedPedestrian ==
    [][ /\ pc = "scan" =>
            \A p \in Pixels :
                instance'[p[1]][p[2]] # Owner(p) =>
                    /\ Owner(p) = Unassigned
                    /\ PedestrianAt(p)
                    /\ instance'[p[1]][p[2]] = walkers[wi].id
        /\ \A yy \in DOMAIN instance' : \A xx \in DOMAIN instance'[yy] :
                instance'[yy][xx] # Unassigned => semantic'[yy][xx] = PEDESTRIAN
      ]_vars

\* C1 witness: in the rows already scanned of the current rectangle there is
\* a pixel the walker claimed, a pedestrian pixel it did not get because a
\* nearer walker owns it, and a pixel left unassigned because it is not
\* pedestrian.
C1_Witness ==
    /\ pc = "scan"
    /\ \E p \in Pixels : Covers(wi, p) /\ p[1] < y /\ Owner(p) = walkers[wi].id
    /\ \E p \in Pixels : /\ Covers(wi, p) /\ p[1] < y /\ PedestrianAt(p)
                         /\ Owner(p) \notin {Unassigned, walkers[wi].id}
    /\ \E p \in Pixels : Covers(wi, p) /\ p[1] < y /\ ~PedestrianAt(p)
                         /\ Owner(p) = Unassigned

C3_NearestFirst ==
    /\ \A i \in 1..Len(walkers) : \A j \in 1..Len(walkers) :
            i < j => PlanarDist2(i) <= PlanarDist2(j)
    /\ (pc = "walkers" /\ wi > Len(walkers)) =>
            \A p \in Pixels :
                LET cover == {k \in 1..Len(walkers) : Covers(k, p)}
                IN  (PedestrianAt(p) /\ cover # {}) =>
                        \E k \in cover :
                            /\ Owner(p) = walkers[k].id
                            /\ \A j \in cover : PlanarDist2(k) <= PlanarDist2(j)

\* C3 witness: at the end of a frame a contested pedestrian pixel is owned by
\* the strictly nearer walker, which comes later in the log and is the
\* higher one above the camera plane.
C3_Witness ==
    /\ pc = "walkers" /\ wi > Len(walkers) /\ Len(walkers) = 2
    /\ walkers[1].id > walkers[2].id
    /\ PlanarDist2(1) < PlanarDist2(2)
    /\ walkers[1].location.z > walkers[2].location.z
    /\ \E p \in Pixels : Covers(1, p) /\ Covers(2, p) /\ PedestrianAt(p)
                         /\ Owner(p) = walkers[1].id

\* C4: a walker that failed the visibility test has no line and is not
\* drawn, and for the rest of the frame it owns exactly the pixels it
\* claimed: the pedestrian pixels of its rectangle inside the image that no
\* rectangle of an earlier walker covers.
C4_RejectedKeepsPixels ==
    \A k \in 1..Len(walkers) :
        (Done(k) /\ HasRect(k) /\ 10 * Cardinality(OwnedBy(k)) < 2 * Area(k)) =>
            /\ ~Drawn(k)
            /\ ~HasLine(k)
            /\ OwnedBy(k) = {p \in Pixels : /\ Covers(k, p) /\ PedestrianAt(p)
                                            /\ \A j \in 1..(k - 1) : ~Covers(j, p)}

\* C4 witness: a rejected walker owns pixels that the rectangle of a farther
\* walker, already scanned, covers.
C4_Witness ==
    /\ pc = "walkers"
    /\ \E k \in 1..Len(walkers), j \in 1..Len(walkers) :
        /\ Done(k) /\ Done(j) /\ k < j /\ HasRect(k) /\ HasRect(j)
        /\ ~Drawn(k)
        /\ \E p \in OwnedBy(k) : Covers(j, p)

(***************************************************************************)
(* Projection: C5 - C10                                                    *)
(***************************************************************************)
SetMin(S) == CHOOSE m \in S : \A x \in S : m <= x

SetMax(S) == CHOOSE m \in S : \A x \in S : m >= x

\* the integer pixel coordinates of the 8 corners of walker k
CornerU(k) == {int(walkers[k].corners[i][1]) : i \in 1..8}

CornerV(k) == {int(walkers[k].corners[i][2]) : i \in 1..8}

AllNonNegative(k) ==
    \A i \in 1..8 : walkers[k].corners[i][1] >= 0 /\ walkers[k].corners[i][2] >= 0

AllBehind(k) == \A i \in 1..8 : walkers[k].corners[i][3] <= 0

\* the whole box of walker k is in front of the camera
AllInFront(k) == \A i \in 1..8 : walkers[k].corners[i][3] > 0

\* C5: a box whose 8 corners all have depth <= 0 has no rectangle, is not
\* drawn and gets no line.
C5_BehindCameraRejected ==
    \A k \in 1..Len(walkers) :
        AllBehind(k) => (~HasRect(k) /\ ~Drawn(k) /\ ~HasLine(k))

\* C6: a walker has a rectangle only if all 8 projected corners have u >= 0
\* and v >= 0; one negative coordinate discards the box.
C6_NonNegativeCorners ==
    \A k \in 1..Len(walkers) : HasRect(k) => AllNonNegative(k)

\* C6 witness: a rectangle returned for a box with a corner at exactly (0, 0).
C6_Witness ==
    /\ pc = "walkers"
    /\ \E k \in 1..Len(walkers) :
        /\ HasRect(k)
        /\ \E i \in 1..8 : walkers[k].corners[i][1] = 0 /\ walkers[k].corners[i][2] = 0

\* C7 as stated: no line for a box with a corner outside the image, and every
\* line's rectangle lies inside the image.
C7_EmittedInsideImage ==
    /\ \A j \in 1..Len(gt) :
        /\ 0 <= gt[j][3] /\ gt[j][3] + gt[j][5] <= w
        /\ 0 <= gt[j][4] /\ gt[j][4] + gt[j][6] <= h
    /\ \A k \in 1..Len(walkers) :
        (\E i \in 1..8 : \/ walkers[k].corners[i][1] < 0
                         \/ walkers[k].corners[i][2] < 0
                         \/ int(walkers[k].corners[i][1]) >= w
                         \/ int(walkers[k].corners[i][2]) >= h)
            => ~HasLine(k)

\* C7 as amended: no line and no drawing for a box with a corner at a
\* negative u or v, and every line has min_x >= 0 and min_y >= 0 (nothing
\* bounds the rectangle on the right or at the bottom).
C7_EmittedNonNegative ==
    /\ \A j \in 1..Len(gt) : 0 <= gt[j][3] /\ 0 <= gt[j][4]
    /\ \A k \in 1..Len(walkers) : ~AllNonNegative(k) => (~HasLine(k) /\ ~Drawn(k))

\* C7 witness: a line whose rectangle reaches past the right edge of the image.
C7_Witness ==
    \E j \in 1..Len(gt) : gt[j][3] < w /\ gt[j][3] + gt[j][5] > w

\* C8: every line has width >= 17 and height >= 35, and so has every
\* rectangle that projection hands to the occlusion stage.
C8_MinimumSize ==
    /\ \A j \in 1..Len(gt) : gt[j][5] >= MinWidth /\ gt[j][6] >= MinHeight
    /\ \A k \in 1..Len(walkers) :
        HasRect(k) =>
            /\ walkers[k].bb2d[2][1] - walkers[k].bb2d[1][1] + 1 >= MinWidth
            /\ walkers[k].bb2d[2][2] - walkers[k].bb2d[1][2] + 1 >= MinHeight

\* C8 witness: a line of the smallest size the filter lets through.
C8_Witness ==
    \E j \in 1..Len(gt) : gt[j][5] = MinWidth + 1 /\ gt[j][6] = MinHeight + 1

\* C9: a box that reaches the size filter (here: in front of the camera, all
\* corners non-negative) is rejected exactly when its width or height as
\* written in a line (max - min + 1) is below 17 or 35.
C9_SizeFilterOnWrittenSize ==
    \A k \in 1..Len(walkers) :
        (AllNonNegative(k) /\ AllInFront(k)) =>
            (~HasRect(k) <=>
                \/ SetMax(CornerU(k)) - SetMin(CornerU(k)) + 1 < MinWidth
                \/ SetMax(CornerV(k)) - SetMin(CornerV(k)) + 1 < MinHeight)

\* C10: a rectangle returned for a box in front of the camera is
\* (min u, min v)-(max u, max v) of the 8 integer corner coordinates.
C10_RectangleIsMinMax ==
    \A k \in 1..Len(walkers) :
        (HasRect(k) /\ AllInFront(k)) =>
            walkers[k].bb2d = << <<SetMin(CornerU(k)), SetMin(CornerV(k))>>,
                                 <<SetMax(CornerU(k)), SetMax(CornerV(k))>> >>

(***************************************************************************)
(* Run level: C11 - C20                                                    *)
(***************************************************************************)
\* C11: a walker whose rectangle starts right of or below the image claims
\* no pixel, is not drawn and gets no line; the visibility test always has a
\* positive total (nothing is divided, the test cannot fail to evaluate).
C11_OffImageRejected ==
    /\ pc = "scan" => total > 0
    /\ \A k \in 1..Len(walkers) :
        (Done(k) /\ HasRect(k)
           /\ (walkers[k].bb2d[1][1] >= w \/ walkers[k].bb2d[1][2] >= h)) =>
            (OwnedBy(k) = {} /\ ~Drawn(k) /\ ~HasLine(k))

\* C11 witness: a walker with a rectangle below the image has been judged.
C11_Witness ==
    /\ pc = "walkers"
    /\ \E k \in 1..Len(walkers) :
        /\ Done(k) /\ HasRect(k)
        /\ walkers[k].bb2d[1][1] < w /\ walkers[k].bb2d[1][2] >= h
        /\ ~Drawn(k)

\* the lines of gt.txt that carry the current frame number
FrameLines == SelectSeq(gt, LAMBDA l : l[1] = frame)

\* C12: with --save the lines of the current frame are, in order, one line
\* frame,id,min_x,min_y,width,height,1,1,1 per accepted (drawn) detection,
\* with width = max_x - min_x + 1 and height = max_y - min_y + 1, and no
\* walker that was rejected has a line.
C12_OneLinePerDetection ==
    args.save =>
        /\ FrameLines =
             [j \in 1..Len(src) |->
                <<frame, src[j][1], src[j][2][1][1], src[j][2][1][2],
                  src[j][2][2][1] - src[j][2][1][1] + 1,
                  src[j][2][2][2] - src[j][2][1][2] + 1, 1, 1, 1>>]
        /\ \A j \in 1..Len(src) :
              \E k \in 1..(wi - 1) : src[j] = <<walkers[k].id, walkers[k].bb2d>>
        /\ \A k \in 1..(wi - 1) : ~Drawn(k) => ~HasLine(k)

\* C12 witness: with --save, one walker accepted and written, another one
\* with a rectangle rejected and not written.
C12_Witness ==
    /\ args.save /\ pc = "walkers"
    /\ Len(gt) = 1 /\ Len(src) = 1
    /\ \E k \in 1..Len(walkers) : Done(k) /\ HasRect(k) /\ ~Drawn(k)

\* q is an initial segment of r
IsPrefix(q, r) == Len(q) <= Len(r) /\ SubSeq(r, 1, Len(q)) = q

\* C13 (as stated): gt.txt is only ever extended, so every line present
\* before the run is still there, in place, after it.
C13_PriorLinesKept == [][IsPrefix(gt, gt')]_vars

\* C13 (amended): with --save the start of the run empties gt.txt and every
\* later step only appends lines to it; without --save gt.txt is not touched.
C13_TruncatedThenAppended ==
    [][ /\ ~args.save => gt' = gt
        /\ (args.save /\ pc = "start") => gt' = <<>>
        /\ (args.save /\ pc # "start") => IsPrefix(gt, gt') ]_vars

\* C13 witness: a saving run has ended; gt.txt holds lines of this run and
\* none of the lines it held before.
C13_Witness ==
    /\ pc = "done" /\ args.save
    /\ gt # <<>>
    /\ \A j \in 1..Len(gt) : gt[j][1] \in 1..frame /\ gt[j] # OldGt[1]

\* an image with its log and semantic raster present and readable
Processable(f) == f.ext = "png" /\ f.has_log /\ f.has_semantic /\ f.readable

\* an image whose log or semantic raster is missing or that cannot be read
MissingCompanion(f) == f.ext = "png" /\ ~(f.has_log /\ f.has_semantic /\ f.readable)

\* the positions of file_list whose frame has been opened so far
Opened ==
    {i \in 1..Len(file_list) :
        /\ Processable(file_list[i])
        /\ i < fi \/ (i = fi /\ pc \in {"walkers", "scan", "error"})}

\* C14: once the run has started the files are in file-name order (by
\* number, NNN.png before NNN.txt, the directory last); the frame counter is
\* the number of frames opened so far, so the first opened frame is 1 and each
\* later one is one greater; with --save every line carries a number of
\* 1..frame and the frame field never decreases down gt.txt.
C14_FrameNumbersMonotone ==
    pc # "start" =>
        /\ \A i, j \in 1..Len(file_list) :
              i < j =>
                \/ file_list[j].ext = ""
                \/ /\ file_list[i].ext # ""
                   /\ file_list[i].num <= file_list[j].num
                   /\ file_list[i].num = file_list[j].num => file_list[i].ext = "png"
        /\ frame = Cardinality(Opened)
        /\ args.save =>
              /\ \A j \in 1..Len(gt) : gt[j][1] \in 1..frame
              /\ \A j \in 2..Len(gt) : gt[j - 1][1] <= gt[j][1]
              /\ (pc = "files" /\ Len(src) > 0) => gt[Len(gt)][1] = frame

\* C14 witness: two frames have been processed, the image numbered 1 first,
\* and gt.txt holds a line of frame 1 followed by a line of frame 2.
C14_Witness ==
    /\ pc = "done" /\ args.save
    /\ frame = 2
    /\ Len(gt) = 2 /\ gt[1][1] = 1 /\ gt[2][1] = 2
    /\ file_list[1].ext = "png" /\ file_list[1].num = 1

\* C15: an image whose log or semantic raster is missing, or that cannot be
\* read, is passed over: the step moves to the next file and changes nothing
\* else (no line, no counter advance, no saved image, nothing shown or dumped,
\* no abort).
C15_MissingCompanionSkipped ==
    [][ (pc = "files" /\ fi <= Len(file_list) /\ MissingCompanion(file_list[fi])) =>
            /\ fi' = fi + 1
            /\ pc' = "files"
            /\ UNCHANGED <<gt, frame, saved, src, shown, dumped, walkers, instance>> ]_vars

\* C15 witness: the run ended after passing over an image without semantic
\* raster and then processing the next image as frame 1.
C15_Witness ==
    /\ pc = "done" /\ args.save
    /\ frame = 1 /\ saved = <<0>>
    /\ Len(gt) = 1 /\ gt[1][1] = 1
    /\ \E i, j \in 1..Len(file_list) :
          /\ i < j
          /\ file_list[i].ext = "png" /\ ~file_list[i].has_semantic
          /\ Processable(file_list[j])

\* pixel p lies inside the rectangle of walker record wk
CoversW(wk, p) ==
    /\ wk.bb2d # None
    /\ wk.bb2d[1][1] <= p[2] /\ p[2] <= wk.bb2d[2][1]
    /\ wk.bb2d[1][2] <= p[1] /\ p[1] <= wk.bb2d[2][2]

AreaW(wk) ==
    (wk.bb2d[2][1] - wk.bb2d[1][1] + 1) * (wk.bb2d[2][2] - wk.bb2d[1][2] + 1)

\* the pedestrian pixels of the rectangle of ws[k] that no rectangle of an
\* earlier walker of ws covers
VisibleOf(ws, k) ==
    {p \in Pixels :
        /\ CoversW(ws[k], p) /\ PedestrianAt(p)
        /\ \A j \in 1..(k - 1) : ~CoversW(ws[j], p)}

\* walker k of ws has a rectangle of which at least 20% is visible
AcceptedOf(ws, k) ==
    ws[k].bb2d # None /\ 10 * Cardinality(VisibleOf(ws, k)) >= 2 * AreaW(ws[k])

\* the detections <<id, rectangle>> of the first k walkers of ws, in order,
\* as a function of the walker list and the frame's semantic raster only
RECURSIVE Detections(_, _)
Detections(ws, k) ==
    IF k = 0 THEN <<>>
    ELSE Detections(ws, k - 1)
           \o (IF AcceptedOf(ws, k) THEN << <<ws[k].id, ws[k].bb2d>> >> ELSE <<>>)

\* all walkers of the frame have been handled
FrameOver == pc = "walkers" /\ wi > Len(walkers)

\* the position of the first line of log with fewer than 10 tokens, or the
\* position after its last line
StopAt(log) == SetMin({k \in 1..Len(log) : log[k].ntok < 10} \cup {Len(log) + 1})

C17_ShortLineNeverAborts == pc # "error"

\* the walker list ws without its r-th walker
Without(ws, r) == [i \in 1..(Len(ws) - 1) |-> IF i < r THEN ws[i] ELSE ws[i + 1]]

\* C18 (as stated): when a frame is over, for every walker that was rejected
\* for whatever reason, the detections of the frame are those of the frame
\* without that walker.
C18_RejectionExcludesOnlyThatActor ==
    FrameOver =>
        \A r \in 1..Len(walkers) :
            ~Drawn(r) => src = Detections(Without(walkers, r), Len(walkers) - 1)

\* C18 (amended): when a frame is over, for every walker rejected by the
\* projection (no rectangle) the detections are those of the frame without
\* that walker; a walker rejected by the visibility test still hides the
\* pedestrian pixels of its rectangle from the walkers behind it.
C18_ProjectionRejectionExcludesOnlyThatActor ==
    FrameOver =>
        /\ \A r \in 1..Len(walkers) :
              ~HasRect(r) => src = Detections(Without(walkers, r), Len(walkers) - 1)
        /\ src = Detections(walkers, Len(walkers))

\* C18 witness: a frame is over in which a walker without rectangle precedes
\* a walker that was emitted.
C18_Witness ==
    /\ FrameOver
    /\ \E r, k \in 1..Len(walkers) : r < k /\ ~HasRect(r) /\ Drawn(k)

\* C19: when the loop over the walkers of a frame begins no pixel has an
\* owner; when the frame is over every owned pixel belongs to a walker of this
\* frame whose rectangle covers it, and the detections are the function
\* Detections of this frame's log and semantic raster, whatever came before.
C19_FreshInstancePerFrame ==
    /\ (pc = "walkers" /\ wi = 1) => \A p \in Pixels : Owner(p) = Unassigned
    /\ FrameOver =>
          LET f == file_list[fi]
          IN  /\ semantic = Raster(f.mask)
              /\ Len(walkers) = Len(f.log)
              /\ \A k \in 1..Len(f.log) : \E i \in 1..Len(walkers) :
                    /\ walkers[i].id = f.log[k].id
                    /\ walkers[i].bb2d = get_2d_bounding_box(f.log[k].corners)
              /\ \A p \in Pixels :
                    Owner(p) # Unassigned =>
                        \E k \in 1..Len(walkers) : walkers[k].id = Owner(p) /\ Covers(k, p)
              /\ src = Detections(walkers, Len(walkers))

\* C19 witness: the second frame of a run is over and its walker was emitted,
\* after the same walker was emitted in the first frame.
C19_Witness ==
    /\ FrameOver /\ args.save
    /\ frame = 2
    /\ Len(src) = 1
    /\ Len(gt) = 2 /\ gt[1][1] = 1 /\ gt[1][2] = src[1][1]

\* the number of frames that have been processed to their end
Ended == Cardinality({i \in Opened : i < fi})

\* C20: the frame counter and the detections of a frame are functions of the
\* recording alone, the same under all eight combinations of the toggles;
\* --save decides only whether gt.txt and the images are written, --show
\* whether each frame is displayed, --debug whether each frame is dumped.
C20_TogglesDoNotAlterDetections ==
    /\ pc # "start" => frame = Cardinality(Opened)
    /\ FrameOver => src = Detections(walkers, Len(walkers))
    /\ IF args.save
       THEN /\ pc # "start" => saved = [i \in 1..frame |-> i - 1]
            /\ FrameOver =>
                  FrameLines = [j \in 1..Len(src) |->
                                  GtLine(frame, src[j][1], src[j][2][1][1], src[j][2][1][2],
                                         src[j][2][2][1], src[j][2][2][2])]
       ELSE gt = OldGt /\ saved = <<>>
    /\ Len(shown) = IF args.show /\ pc # "start" THEN Ended ELSE 0
    /\ Len(dumped) = IF args.debug /\ pc # "start" THEN Ended ELSE 0
    /\ \A i \in 1..Len(dumped) : dumped[i][1] = i

\* C20 witness: a run without --save, with --show and --debug, has ended
\* after two frames, the last one with a detection; gt.txt is as it was.
C20_Witness ==
    /\ pc = "done"
    /\ ~args.save /\ args.show /\ args.debug
    /\ frame = 2 /\ Len(src) = 1
    /\ Len(shown) = 2 /\ Len(dumped) = 2
    /\ gt = OldGt

(***************************************************************************)
(* cleansing.py: the text of gt.txt                                        *)
(***************************************************************************)
\* the characters of a file: a decimal number, a comma, a line feed
Num(n) == <<"num", n>>
Comma == <<",", 0>>
LineFeed == <<"lf", 0>>

\* str(n)
str(n) == <<Num(n)>>

\* int(s) of a string holding a number and possibly a line feed after it
int_str(s) == s[1][2]

RECURSIVE Concat(_)
Concat(ss) == IF ss = <<>> THEN <<>> ELSE Head(ss) \o Concat(Tail(ss))

\* make_bb.py line 257: the text of one line of gt.txt
RenderLine(l) ==
    Concat([i \in 1..Len(l) |-> str(l[i]) \o (IF i < Len(l) THEN <<Comma>> ELSE <<LineFeed>>)])

\* the text of gt.txt
RenderFile(lines) == Concat([j \in 1..Len(lines) |-> RenderLine(lines[j])])

\* label.readline() repeated: the lines of a text, each with its line feed
RECURSIVE readlines(_, _, _)
readlines(text, k, line) ==
    IF k > Len(text) THEN (IF line = <<>> THEN <<>> ELSE <<line>>)
    ELSE IF text[k] = LineFeed THEN <<Append(line, text[k])>> \o readlines(text, k + 1, <<>>)
    ELSE readlines(text, k + 1, Append(line, text[k]))

\* line.split(',')
RECURSIVE split(_, _, _)
split(line, k, part) ==
    IF k > Len(line) THEN <<part>>
    ELSE IF line[k] = Comma THEN <<part>> \o split(line, k + 1, <<>>)
    ELSE split(line, k + 1, Append(part, line[k]))

\* lines 42-54: the frame groups of the lines from the k-th on; st holds
\* frame, new_gt and start_frame_idx
RECURSIVE load(_, _, _)
load(lines, k, st) ==
    IF k > Len(lines) THEN st
    ELSE LET obj  == split(lines[k], 1, <<>>)
             new  == int_str(obj[1]) # st.frame
             grps == IF new THEN Append(st.new_gt, <<>>) ELSE st.new_gt
         IN  load(lines, k + 1,
                  [frame |-> int_str(obj[1]),
                   new_gt |-> [grps EXCEPT ![Len(grps)] = Append(@, obj)],
                   start_frame_idx |->
                       IF new /\ int_str(obj[1]) = start
                       THEN Len(grps) - 1 ELSE st.start_frame_idx])

\* a record written with a comma after every component
WriteObjCommas(obj) == Concat([i \in 1..Len(obj) |-> obj[i] \o <<Comma>>])

\* lines 133-136: the components of a record with commas between them
WriteObj(obj) ==
    Concat([i \in 1..Len(obj) |-> obj[i] \o (IF i < Len(obj) THEN <<Comma>> ELSE <<>>)])

\* lines 130-136, 141-147: the text written to new_gt.txt
WriteFile(groups) ==
    Concat([g \in 1..Len(groups) |->
              Concat([j \in 1..Len(groups[g]) |-> WriteObj(groups[g][j])])])

\* list.remove(x): the list without its first element equal to x
RECURSIVE remove(_, _)
remove(list, x) ==
    IF list = <<>> THEN <<>>
    ELSE IF Head(list) = x THEN Tail(list)
    ELSE <<Head(list)>> \o remove(Tail(list), x)

\* a key that changes the size field two places after the position field
resize(obj, i, d) == [obj EXCEPT ![i + 2] = str(int_str(obj[i + 2]) + d)]

\* lines 103, 108, 113, 118: gt[idx][i] = str(int(gt[idx][i]) + d)
move(obj, i, d) == [obj EXCEPT ![i] = str(int_str(obj[i]) + d)]

(***************************************************************************)
(* cleansing.py: actions                                                   *)
(***************************************************************************)
\* lines 39-58: read gt.txt
EdLoad ==
    /\ epc = "load"
    /\ LET st == load(readlines(RenderFile(gt), 1, <<>>), 1,
                      [frame |-> -1, new_gt |-> <<>>, start_frame_idx |-> 0])
       IN  /\ new_gt' = st.new_gt
           /\ pos' = st.start_frame_idx
           /\ cache_new_gt' = [g \in 1..Len(st.new_gt) |-> <<>>]
    /\ finish' = 0
    /\ epc' = "frame"
    /\ UNCHANGED <<mvars, gt, start, jpgs, org, idx, new_gt_txt, key, nkeys>>

\* lines 59-70: show the frame at pos; cv2.imread gives None for a missing
\* image and org.copy() then raises
EdFrame ==
    /\ epc = "frame"
    /\ 0 <= pos /\ pos < Len(new_gt)
    /\ LET cur      == new_gt[pos + 1]
           cache_gt == cache_new_gt[pos + 1]
       IN  IF Len(cur) = 0 /\ Len(cache_gt) = 0
           THEN epc' = "error" /\ UNCHANGED <<org, idx>>
           ELSE LET f == IF Len(cur) > 0 THEN int_str(cur[1][1])
                         ELSE int_str(cache_gt[1][1])
                IN  IF f \in jpgs
                    THEN org' = f /\ idx' = -1 /\ epc' = "keys"
                    ELSE epc' = "error" /\ UNCHANGED <<org, idx>>
    /\ UNCHANGED <<mvars, gt, start, jpgs, new_gt, cache_new_gt, pos, finish,
                   new_gt_txt, key, nkeys>>

\* lines 59, 140-148: pos is out of range, write new_gt.txt and end
EdFinalSave ==
    /\ epc = "frame"
    /\ ~(0 <= pos /\ pos < Len(new_gt))
    /\ new_gt_txt' = WriteFile(new_gt)
    /\ epc' = "end"
    /\ UNCHANGED <<mvars, gt, start, jpgs, new_gt, cache_new_gt, pos, org, idx,
                   finish, key, nkeys>>

\* line 73: a key is read
Read(k) ==
    /\ epc = "keys"
    /\ nkeys < MaxKeys
    /\ key' = k
    /\ nkeys' = nkeys + 1
    /\ UNCHANGED <<mvars, gt, start, jpgs, org>>

\* an uncaught IndexError
Raise ==
    /\ epc' = "error"
    /\ UNCHANGED <<new_gt, cache_new_gt, pos, idx, finish, new_gt_txt>>

\* lines 74-76
KeyRight ==
    /\ Read("right")
    /\ pos' = pos + 1
    /\ epc' = "frame"
    /\ UNCHANGED <<new_gt, cache_new_gt, idx, finish, new_gt_txt>>

\* lines 78-80, 138, 140: Esc ends the session without the final save
KeyEsc ==
    /\ Read("esc")
    /\ finish' = 1
    /\ epc' = "end"
    /\ UNCHANGED <<new_gt, cache_new_gt, pos, idx, new_gt_txt>>

\* lines 82-84
KeyLeft ==
    /\ Read("left")
    /\ pos' = pos - 1
    /\ epc' = "frame"
    /\ UNCHANGED <<new_gt, cache_new_gt, idx, finish, new_gt_txt>>

\* lines 86-94
KeySpace ==
    /\ Read("space")
    /\ Len(new_gt[pos + 1]) > 0
    /\ IF idx # -1 /\ idx >= Len(new_gt[pos + 1])
       THEN Raise
       ELSE /\ idx' = (idx + 1) % Len(new_gt[pos + 1])
            /\ UNCHANGED <<new_gt, cache_new_gt, pos, finish, new_gt_txt, epc>>

\* a BackSpace that forgets the record it removes
KeyBackspaceForgetting ==
    /\ Read("backspace")
    /\ idx # -1
    /\ Len(new_gt[pos + 1]) > 0
    /\ IF idx >= Len(new_gt[pos + 1])
       THEN Raise
       ELSE /\ new_gt' = [new_gt EXCEPT ![pos + 1] = remove(@, @[idx + 1])]
            /\ UNCHANGED <<cache_new_gt, pos, idx, finish, new_gt_txt, epc>>

\* lines 96-100
KeyBackspace ==
    /\ Read("backspace")
    /\ idx # -1
    /\ Len(new_gt[pos + 1]) > 0
    /\ IF idx >= Len(new_gt[pos + 1])
       THEN Raise
       ELSE /\ cache_new_gt' = [cache_new_gt EXCEPT ![pos + 1] =
                                   Append(@, new_gt[pos + 1][idx + 1])]
            /\ new_gt' = [new_gt EXCEPT ![pos + 1] = remove(@, @[idx + 1])]
            /\ UNCHANGED <<pos, idx, finish, new_gt_txt, epc>>

\* lines 102-120: one of the keys d, a, w, s on component i with step d
Nudge(k, i, d) ==
    /\ Read(k)
    /\ idx # -1
    /\ IF idx >= Len(new_gt[pos + 1])
       THEN Raise
       ELSE /\ new_gt' = [new_gt EXCEPT ![pos + 1][idx + 1] = move(@, i, d)]
            /\ UNCHANGED <<cache_new_gt, pos, idx, finish, new_gt_txt, epc>>

\* lines 102-105
KeyD == Nudge("d", 3, 2)

\* lines 107-110
KeyA == Nudge("a", 3, -2)

\* lines 112-115
KeyW == Nudge("w", 4, -2)

\* lines 117-120
KeyS == Nudge("s", 4, 2)

\* a Ctrl+Z that gives back the box deleted first
KeyCtrlZOldest ==
    /\ Read("ctrl+z")
    /\ Len(cache_new_gt[pos + 1]) > 0
    /\ new_gt' = [new_gt EXCEPT ![pos + 1] = Append(@, cache_new_gt[pos + 1][1])]
    /\ cache_new_gt' = [cache_new_gt EXCEPT ![pos + 1] = Tail(@)]
    /\ UNCHANGED <<pos, idx, finish, new_gt_txt, epc>>

\* lines 122-127
KeyCtrlZ ==
    /\ Read("ctrl+z")
    /\ Len(cache_new_gt[pos + 1]) > 0
    /\ LET cache_gt == cache_new_gt[pos + 1]
       IN  /\ new_gt' = [new_gt EXCEPT ![pos + 1] = Append(@, cache_gt[Len(cache_gt)])]
           /\ cache_new_gt' = [cache_new_gt EXCEPT ![pos + 1] =
                                  SubSeq(cache_gt, 1, Len(cache_gt) - 1)]
    /\ UNCHANGED <<pos, idx, finish, new_gt_txt, epc>>

\* lines 129-137
KeyEnter ==
    /\ Read("enter")
    /\ new_gt_txt' = WriteFile(new_gt)
    /\ UNCHANGED <<new_gt, cache_new_gt, pos, idx, finish, epc>>

\* a key no branch handles: another key, or Space in a frame without boxes,
\* BackSpace or a d, a, w, s without selection, Ctrl+Z with nothing deleted
KeyOther ==
    /\ Read("other")
    /\ UNCHANGED <<new_gt, cache_new_gt, pos, idx, finish, new_gt_txt, epc>>

NextEditor ==
    \/ EdLoad
    \/ EdFrame
    \/ EdFinalSave
    \/ KeyRight
    \/ KeyEsc
    \/ KeyLeft
    \/ KeySpace
    \/ KeyBackspace
    \/ KeyD
    \/ KeyA
    \/ KeyW
    \/ KeyS
    \/ KeyCtrlZ
    \/ KeyEnter
    \/ KeyOther

(***************************************************************************)
(* Inputs: the gt directory                                                *)
(***************************************************************************)
\* a line of gt.txt as make_bb.py writes it: an 18 x 36 box at (x, 0)
EdLine(fr, id, x) == GtLine(fr, id, x, 0, x + 17, 35)

\* gt.txt: empty, one frame with two boxes, a frame with one box followed by
\* a frame with two
EditorFiles ==
    { <<>>,
      <<EdLine(1, 1, 0), EdLine(1, 2, 20)>>,
      <<EdLine(1, 1, 0), EdLine(2, 1, 2), EdLine(2, 2, 20)>> }

\* the editor is started on the gt directory of an earlier run; the images
\* 000000.jpg up to 000001.jpg or 000002.jpg exist
InitEditor ==
    /\ MainAtStart
    /\ args = [save |-> TRUE, show |-> FALSE, debug |-> FALSE]
    /\ file_list = <<>>
    /\ gt \in EditorFiles
    /\ start \in {0, 2}
    /\ jpgs \in {0..1, 0..2}
    /\ new_gt = <<>>
    /\ cache_new_gt = <<>>
    /\ pos = 0
    /\ org = 0
    /\ idx = -1
    /\ finish = 0
    /\ new_gt_txt = Absent
    /\ epc = "load"
    /\ key = "none"
    /\ nkeys = 0

SpecEditor == InitEditor /\ [][NextEditor]_vars

ColumnsRead ==
    LET bb == walkers[wi].bb2d
    IN  {x \in bb[1][1]..bb[2][1] : \A x2 \in bb[1][1]..x : ~PastEdge(x2, w)}

\* a row of the current rectangle is about to be scanned
RowPending == pc = "scan" /\ y <= walkers[wi].bb2d[2][2] /\ ~PastEdge(y, h)

\* C25: every row the scan enters and every column it reads in it lies
\* inside the image.
C25_ScanInsideImage ==
    RowPending =>
        /\ 0 <= y /\ y < h
        /\ \A x \in ColumnsRead : 0 <= x /\ x < w

\* C25 witness: the scan of a rectangle that reaches past the right edge has
\* claimed pixels and goes on with a further row.
C25_Witness ==
    /\ RowPending
    /\ walkers[wi].bb2d[2][1] >= w
    /\ y > walkers[wi].bb2d[1][2]
    /\ cnt > 0

\* the depths of the 8 corners of walker k
Depths(k) == {walkers[k].corners[i][3] : i \in 1..8}

\* C26: the depth check returns nothing exactly for a box with a corner at
\* depth <= 0 and a corner at depth >= 60; such a box has no rectangle.
C26_DepthCheckLiteral ==
    \A k \in 1..Len(walkers) :
        LET mixed == (\E d \in Depths(k) : d <= 0) /\ (\E d \in Depths(k) : d >= MaxDepth)
        IN  /\ (get_bounding_box(walkers[k].corners) = None) <=> mixed
            /\ mixed => ~HasRect(k)

\* C26 witness: a box with a corner behind the camera and all depths below 60
\* has passed the depth check and got a rectangle.
C26_Witness ==
    /\ pc = "walkers"
    /\ \E k \in 1..Len(walkers) :
          /\ \E d \in Depths(k) : d <= 0
          /\ \A d \in Depths(k) : d < MaxDepth
          /\ HasRect(k)

\* C28: the frame number of every line of gt.txt is the index under which the
\* image of that frame was saved (saved[i] is the index of the image of the
\* i-th processed frame, whose lines carry the number i).
C28_LineNumberIsImageIndex ==
    (args.save /\ pc # "start") =>
        \A j \in 1..Len(gt) :
            gt[j][1] \in 1..Len(saved) /\ saved[gt[j][1]] = gt[j][1]

(***************************************************************************)
(* The editor: C22 - C24, C27, C29, C30                                    *)
(***************************************************************************)
\* the boxes and the deleted boxes of the frame on display
Boxes == new_gt[pos + 1]

Deleted == cache_new_gt[pos + 1]

\* the numbers a record holds
Fields(obj) == [i \in 1..Len(obj) |-> int_str(obj[i])]

\* the records that are not deleted, frame group after frame group
LiveLines == Concat([g \in 1..Len(new_gt) |-> [j \in 1..Len(new_gt[g]) |-> Fields(new_gt[g][j])]])

\* the frame groups as they were loaded
Loaded ==
    load(readlines(RenderFile(gt), 1, <<>>), 1,
         [frame |-> -1, new_gt |-> <<>>, start_frame_idx |-> 0]).new_gt

\* nothing is deleted and every record is as it was loaded
Unedited ==
    /\ new_gt = Loaded
    /\ \A g \in 1..Len(cache_new_gt) : cache_new_gt[g] = <<>>

\* a key has been read and handled without an exception
Handled(k) == epc = "keys" /\ nkeys' = nkeys + 1 /\ key' = k /\ epc' # "error"

\* the step writes new_gt.txt: Enter, or the save at the end of the session
Saving == Handled("enter") \/ (epc = "frame" /\ epc' = "end")

\* C22: whenever new_gt.txt is written it holds exactly the records that are
\* not deleted, group after group, each as its fields separated by commas and
\* ended by a line feed; written without any edit it is the text of gt.txt.
C22_SaveWritesLiveRecords ==
    [][ Saving =>
          /\ new_gt_txt' = RenderFile(LiveLines)
          /\ Unedited => new_gt_txt' = RenderFile(gt) ]_vars

\* C22 witness: Enter was pressed on an unedited file of two frame groups and
\* new_gt.txt is the text of gt.txt.
C22_Witness ==
    /\ key = "enter" /\ epc = "keys"
    /\ Len(new_gt) = 2
    /\ Unedited
    /\ new_gt_txt = RenderFile(gt)

\* C23: BackSpace with a valid selection moves the selected box from the
\* frame's boxes to the end of its deleted boxes; Ctrl+Z moves the last of the
\* deleted boxes, unchanged, to the end of the frame's boxes; neither touches
\* another frame.  So k Ctrl+Z after k deletions give back the same records.
C23_DeleteAndUndo ==
    [][ /\ Handled("backspace") =>
              LET sel == Boxes[idx + 1]
              IN  /\ Deleted' = Append(Deleted, sel)
                  /\ Len(Boxes') = Len(Boxes) - 1
                  /\ {Boxes'[i] : i \in 1..Len(Boxes')}
                       = {Boxes[i] : i \in 1..Len(Boxes)} \ {sel}
        /\ Handled("ctrl+z") =>
              /\ Boxes' = Append(Boxes, Deleted[Len(Deleted)])
              /\ Deleted' = SubSeq(Deleted, 1, Len(Deleted) - 1)
        /\ (Handled("backspace") \/ Handled("ctrl+z")) =>
              /\ pos' = pos
              /\ \A g \in 1..Len(new_gt) :
                    g # pos + 1 =>
                        new_gt'[g] = new_gt[g] /\ cache_new_gt'[g] = cache_new_gt[g] ]_vars

\* C23 witness: both boxes of a frame were deleted and both were restored by
\* Ctrl+Z; the frame holds the records it was loaded with, in another order.
C23_Witness ==
    /\ epc = "keys" /\ key = "ctrl+z"
    /\ Deleted = <<>>
    /\ Len(Boxes) = 2
    /\ Boxes # Loaded[pos + 1]
    /\ {Boxes[i] : i \in 1..2} = {Loaded[pos + 1][i] : i \in 1..2}

\* the component a key moves and the step it moves it by
Moves == [d |-> <<3, 2>>, a |-> <<3, -2>>, w |-> <<4, -2>>, s |-> <<4, 2>>]

\* C24: with a valid selection, d and a change min_x of the selected box by
\* +2 and -2, s and w change its min_y by +2 and -2, the new value written as
\* a plain number; every other component of the box, every other box and the
\* deleted boxes are unchanged.
C24_NudgeMovesOnlySelected ==
    [][ \A k \in DOMAIN Moves :
          Handled(k) =>
              LET i   == Moves[k][1]
                  old == Boxes[idx + 1]
                  new == Boxes'[idx + 1]
              IN  /\ old[i] = str(int_str(old[i]))
                  /\ new[i] = str(int_str(old[i]) + Moves[k][2])
                  /\ Len(new) = Len(old)
                  /\ \A j \in 1..Len(old) : j # i => new[j] = old[j]
                  /\ new_gt' = [new_gt EXCEPT ![pos + 1][idx + 1] = new]
                  /\ cache_new_gt' = cache_new_gt
                  /\ idx' = idx /\ pos' = pos ]_vars

\* C24 witness: a box was selected, moved right with d and moved back with a;
\* every record is as it was loaded.
C24_Witness ==
    /\ epc = "keys" /\ key = "a"
    /\ nkeys = 3
    /\ idx = 0
    /\ Unedited

\* C27: while keys are read the selection index is -1 or the index of a box
\* of the frame.
C27_SelectionValid ==
    epc = "keys" => (idx = -1 \/ (0 <= idx /\ idx < Len(Boxes)))

\* C29: in every frame group the boxes and the deleted boxes together are as
\* many as the lines the group was loaded with, at least one; the frame on
\* display carries the number of its group.
C29_GroupSizeConstant ==
    epc \in {"frame", "keys", "end", "error"} =>
        LET groups == Loaded
        IN  /\ Len(new_gt) = Len(groups) /\ Len(cache_new_gt) = Len(groups)
            /\ \A g \in 1..Len(groups) :
                  /\ Len(new_gt[g]) + Len(cache_new_gt[g]) = Len(groups[g])
                  /\ Len(groups[g]) >= 1
            /\ epc = "keys" => org = int_str(groups[pos + 1][1][1])

\* C29 witness: a frame all of whose boxes were deleted is on display again
\* after the editor went to another frame and came back.
C29_Witness ==
    /\ epc = "keys" /\ key \in {"left", "right"}
    /\ Boxes = <<>>
    /\ Deleted # <<>>
    /\ org = int_str(Deleted[1][1])

\* C30: the session never ends by an exception; when it has ended, Esc was
\* pressed or the frame index is out of range, and if Esc was not pressed
\* new_gt.txt holds the records as they are at the end.
C30_SessionEndsByEscOrNavigation ==
    /\ epc # "error"
    /\ epc = "end" =>
          /\ finish = 1 \/ ~(0 <= pos /\ pos < Len(new_gt))
          /\ finish = 0 => new_gt_txt = WriteFile(new_gt)

====
